---- MODULE Spec2Model ----
(***************************************************************************)
(* Namespace context providers of liblttng-ust (pid_ns, user_ns, mnt_ns,   *)
(* cgroup_ns, net_ns, ipc_ns): the cached namespace identity, its          *)
(* resolver, the size / record / get_value callbacks, reset, the TLS       *)
(* fixup, and the registration into a context.                             *)
(*                                                                         *)
(* Numbers wider than TLC's integers are kept as little-endian sequences   *)
(* of 16-bit limbs: an `unsigned int` is <<w0, w1>> (w0 + 2^16 * w1) and   *)
(* an ino_t / int64_t is <<w0, w1, w2, w3>>.  4026531840 (0xF0000000) is   *)
(* <<0, 61440>>.                                                           *)
(***************************************************************************)
EXTENDS Integers, Sequences, FiniteSets, TLC

VARIABLES
    provider,       \* the provider (compilation unit) the calls go to
    caller,         \* the thread that makes the calls of a sequential run
    cached_pid_ns,  \* static unsigned int cached_pid_ns
    cached_tls,     \* DEFINE_URCU_TLS(unsigned int, cached_<kind>_ns), per thread
    last,           \* observation: the call that completed last
    hist,           \* observation: the calls on the caller's cache since its last reset
    fields,         \* struct lttng_ctx: the ordered context fields
    reg,            \* observation: the registration call that completed last
    pc,             \* per thread position inside get_pid_ns (interleaved runs)
    frame,          \* per thread locals of the get_pid_ns call in progress
    build,          \* how the build compiled the unsynchronised reads of cached_pid_ns
    pid_ns_inum,    \* kernel: the inode number of the pid namespace of the process
    commit,         \* the event commit in progress: sizes computed, fields recorded
    probed,         \* observation: what the successful stats of /proc/self/ns/pid
                    \* reported, as stored, since the latest reset of cached_pid_ns
    ns_now          \* kernel: the namespace the caller is in, for the kind of the provider

vars == <<provider, caller, cached_pid_ns, cached_tls, last, hist, fields, reg,
          pc, frame, build, pid_ns_inum, commit, probed, ns_now>>

(***************************************************************************)
(* Bounds of the model.                                                    *)
(***************************************************************************)
NThreads == 2
MaxOffset == 4

Threads == 1..NThreads

(***************************************************************************)
(* Program constants.                                                      *)
(***************************************************************************)
Kinds == {"pid", "user", "mnt", "cgroup", "net", "ipc"}
TlsKinds == Kinds \ {"pid"}

U32Zero == <<0, 0>>
\* sizeof(unsigned int)
SizeofUInt == 4
\* lttng_alignof(unsigned int): the natural alignment of a 32-bit integer
AlignofUInt == 4
CharBit == 8
ENOMEM == 12
EEXIST == 17

(***************************************************************************)
(* stat(2): the inode numbers the model lets it report.  ino_t is 64 bits  *)
(* wide; the namespace files of procfs report 0xF0000000 and up.           *)
(***************************************************************************)
InoZero == <<0, 0, 0, 0>>
InoA == <<0, 61440, 0, 0>>
InoB == <<1, 61440, 0, 0>>
InoWideA == <<0, 61440, 1, 0>>
Inodes == {InoZero, InoA, InoB, InoWideA}

StatFail == [rc |-> -1, st_ino |-> InoZero]
StatOk(ino) == [rc |-> 0, st_ino |-> ino]
StatResults == {StatFail} \cup {StatOk(i) : i \in Inodes}

\* snprintf: a negative return is an output error, otherwise the length written
SnprintfResults == {-1, 24}

\* what one resolver call meets: the primary stat, the snprintf, the fallback stat
\* (a result the resolver cannot ask for is left at its failing value, but for an
\* environment where both files stat and one where the task file would stat
\* although its path cannot be built)
Envs ==
    {[primary |-> StatOk(i), snprintf |-> -1, fallback |-> StatFail] : i \in Inodes}
    \cup {[primary |-> StatOk(InoA), snprintf |-> 24, fallback |-> StatOk(InoB)]}
    \cup {[primary |-> StatFail, snprintf |-> -1, fallback |-> st] :
              st \in {StatFail, StatOk(InoB)}}
    \cup {[primary |-> StatFail, snprintf |-> 24, fallback |-> st] : st \in StatResults}

NoEnv == [primary |-> StatFail, snprintf |-> -1, fallback |-> StatFail]

\* a conversion that keeps the high 32 bits
U32HighHalf(ino) == <<ino[3], ino[4]>>

\* the conversion of `cached = sb.st_ino`: ino_t to unsigned int keeps the low 32 bits
U32(ino) == <<ino[1], ino[2]>>

\* the conversion of a signed 32-bit int to int64_t: sign-extended
S64OfS32(v) == IF v[2] >= 2^15 THEN <<v[1], v[2], 65535, 65535>> ELSE <<v[1], v[2], 0, 0>>

\* the conversion of `value->u.s64 = ns`: unsigned int to int64_t, zero-extended
S64OfU32(v) == <<v[1], v[2], 0, 0>>

S64IsNegative(x) == x[4] >= 2^15

(***************************************************************************)
(* The resolvers.  Each returns the cache after the call, the value        *)
(* returned, and the files it passed to stat, in order.                    *)
(***************************************************************************)
\* get_tls_ns with the test of the cache lost: every call probes
get_tls_ns_always_probes(cached, env) ==
    IF env.primary.rc = 0
    THEN [cached |-> U32(env.primary.st_ino), ret |-> U32(env.primary.st_ino),
          probes |-> <<"thread-self">>]
    ELSE IF env.snprintf < 0
    THEN [cached |-> cached, ret |-> cached, probes |-> <<"thread-self">>]
    ELSE IF env.fallback.rc = 0
    THEN [cached |-> U32(env.fallback.st_ino), ret |-> U32(env.fallback.st_ino),
          probes |-> <<"thread-self", "task">>]
    ELSE [cached |-> cached, ret |-> cached, probes |-> <<"thread-self", "task">>]

\* get_tls_ns returning (unsigned int) -1 when the fallback stat fails
get_tls_ns_fails_with_minus_one(cached, env) ==
    IF cached # U32Zero
    THEN [cached |-> cached, ret |-> cached, probes |-> <<>>]
    ELSE IF env.primary.rc = 0
    THEN [cached |-> U32(env.primary.st_ino), ret |-> U32(env.primary.st_ino),
          probes |-> <<"thread-self">>]
    ELSE IF env.snprintf < 0
    THEN [cached |-> cached, ret |-> cached, probes |-> <<"thread-self">>]
    ELSE IF env.fallback.rc = 0
    THEN [cached |-> U32(env.fallback.st_ino), ret |-> U32(env.fallback.st_ino),
          probes |-> <<"thread-self", "task">>]
    ELSE [cached |-> <<65535, 65535>>, ret |-> <<65535, 65535>>,
          probes |-> <<"thread-self", "task">>]

\* get_tls_ns with the else lost: the task file is probed after the primary
\* probe succeeded too
get_tls_ns_probes_both(cached, env) ==
    LET first == IF env.primary.rc = 0 THEN U32(env.primary.st_ino) ELSE cached
    IN  IF cached # U32Zero
        THEN [cached |-> cached, ret |-> cached, probes |-> <<>>]
        ELSE IF env.snprintf < 0
        THEN [cached |-> first, ret |-> first, probes |-> <<"thread-self">>]
        ELSE IF env.fallback.rc = 0
        THEN [cached |-> U32(env.fallback.st_ino), ret |-> U32(env.fallback.st_ino),
              probes |-> <<"thread-self", "task">>]
        ELSE [cached |-> first, ret |-> first, probes |-> <<"thread-self", "task">>]

\* get_tls_ns with the goto end lost: the task file is probed with whatever the
\* failed snprintf left in the path buffer
get_tls_ns_ignores_snprintf(cached, env) ==
    IF cached # U32Zero
    THEN [cached |-> cached, ret |-> cached, probes |-> <<>>]
    ELSE IF env.primary.rc = 0
    THEN [cached |-> U32(env.primary.st_ino), ret |-> U32(env.primary.st_ino),
          probes |-> <<"thread-self">>]
    ELSE IF env.fallback.rc = 0
    THEN [cached |-> U32(env.fallback.st_ino), ret |-> U32(env.fallback.st_ino),
          probes |-> <<"thread-self", "task">>]
    ELSE [cached |-> cached, ret |-> cached, probes |-> <<"thread-self", "task">>]

get_tls_ns(cached, env) ==
    IF cached # U32Zero
    THEN [cached |-> cached, ret |-> cached, probes |-> <<>>]
    ELSE IF env.primary.rc = 0
    THEN [cached |-> U32(env.primary.st_ino), ret |-> U32(env.primary.st_ino),
          probes |-> <<"thread-self">>]
    ELSE IF env.snprintf < 0
    THEN [cached |-> cached, ret |-> cached, probes |-> <<"thread-self">>]
    ELSE IF env.fallback.rc = 0
    THEN [cached |-> U32(env.fallback.st_ino), ret |-> U32(env.fallback.st_ino),
          probes |-> <<"thread-self", "task">>]
    ELSE [cached |-> cached, ret |-> cached, probes |-> <<"thread-self", "task">>]

\* the test `!cached_pid_ns` always true: every call probes
pid_ns_miss_always(cached) == TRUE

\* the test `!cached_pid_ns` of get_pid_ns
pid_ns_miss(cached) == cached = U32Zero

\* the value `cached_pid_ns = sb.st_ino` stores
pid_ns_stored(st_ino) == U32(st_ino)

get_pid_ns(cached, env) ==
    IF ~pid_ns_miss(cached)
    THEN [cached |-> cached, ret |-> cached, probes |-> <<>>]
    ELSE IF env.primary.rc = 0
    THEN [cached |-> pid_ns_stored(env.primary.st_ino),
          ret |-> pid_ns_stored(env.primary.st_ino), probes |-> <<"self">>]
    ELSE [cached |-> cached, ret |-> cached, probes |-> <<"self">>]

get_ns(kind, cached, env) ==
    IF kind = "pid" THEN get_pid_ns(cached, env) ELSE get_tls_ns(cached, env)

(***************************************************************************)
(* The write sink handed to record: struct lttng_ust_lib_ring_buffer_ctx.  *)
(* buf_offset is the write cursor, data the writes made through it.        *)
(***************************************************************************)
Ctx(offset) == [buf_offset |-> offset, data |-> <<>>]

\* the padding that brings align_drift to the next multiple of size_of_type
lib_ring_buffer_align(align_drift, size_of_type) ==
    (size_of_type - (align_drift % size_of_type)) % size_of_type

lib_ring_buffer_align_ctx(ctx, alignment) ==
    [ctx EXCEPT !.buf_offset = @ + lib_ring_buffer_align(@, alignment)]

\* chan->ops->event_write(ctx, src, len): len bytes at the cursor, cursor advanced
event_write(ctx, src, len) ==
    [buf_offset |-> ctx.buf_offset + len,
     data |-> Append(ctx.data, [at |-> ctx.buf_offset, len |-> len, val |-> src])]

(***************************************************************************)
(* The three callbacks installed in a context field.                       *)
(***************************************************************************)
\* get_size without the alignment padding
ns_get_size_unpadded(offset) == SizeofUInt

ns_get_size(offset) ==
    lib_ring_buffer_align(offset, AlignofUInt) + SizeofUInt

\* record without the alignment of the cursor
ns_record_unaligned(kind, cached, env, ctx) ==
    LET r == get_ns(kind, cached, env)
    IN  [cached |-> r.cached, ret |-> r.ret, probes |-> r.probes,
         ctx |-> event_write(ctx, r.ret, SizeofUInt)]

\* record that writes nothing when the resolver returned 0
ns_record_skips_unresolved(kind, cached, env, ctx) ==
    LET r == get_ns(kind, cached, env)
        aligned == lib_ring_buffer_align_ctx(ctx, AlignofUInt)
    IN  [cached |-> r.cached, ret |-> r.ret, probes |-> r.probes,
         ctx |-> IF r.ret = U32Zero THEN ctx
                                    ELSE event_write(aligned, r.ret, SizeofUInt)]

ns_record(kind, cached, env, ctx) ==
    LET r == get_ns(kind, cached, env)
        aligned == lib_ring_buffer_align_ctx(ctx, AlignofUInt)
    IN  [cached |-> r.cached, ret |-> r.ret, probes |-> r.probes,
         ctx |-> event_write(aligned, r.ret, SizeofUInt)]

ns_get_value(kind, cached, env) ==
    LET r == get_ns(kind, cached, env)
    IN  [cached |-> r.cached, ret |-> r.ret, probes |-> r.probes,
         s64 |-> S64OfU32(r.ret)]

\* a reset that leaves the cache as it is
ns_reset_keeps(cached) == cached

\* lttng_context_<kind>_ns_reset: the cache after the call
ns_reset(cached) == U32Zero

\* a fixup that writes the TLS variable
ns_fixup_tls_clears(cached) == U32Zero

\* lttng_fixup_<kind>_ns_tls: an empty asm statement with the TLS variable as input
ns_fixup_tls(cached) == cached

(***************************************************************************)
(* State of the call-level specification: one thread, the caller, calls    *)
(* the entry points of one provider, each call running to completion.      *)
(***************************************************************************)
\* the cache a call of thread t to provider k works on
Cache(k, t) == IF k = "pid" THEN cached_pid_ns ELSE cached_tls[k][t]

\* a store that reaches the instance of every thread, as if the cache were one
\* process-wide variable
StoreCacheShared(k, t, v) ==
    IF k = "pid"
    THEN /\ cached_pid_ns' = v
         /\ UNCHANGED cached_tls
    ELSE /\ cached_tls' = [cached_tls EXCEPT ![k] = [u \in Threads |-> v]]
         /\ UNCHANGED cached_pid_ns

\* URCU_TLS(cached_<kind>_ns) names the instance of the thread that runs the statement
StoreCache(k, t, v) ==
    IF k = "pid"
    THEN /\ cached_pid_ns' = v
         /\ UNCHANGED cached_tls
    ELSE /\ cached_tls' = [cached_tls EXCEPT ![k][t] = v]
         /\ UNCHANGED cached_pid_ns

\* ncalls: get_value / record calls since the cache was fresh or reset (2: two or more)
\* lastRet: what the latest of them returned; read, lastRead: the same for get_value
\* afterReset, preReset: no call since a reset, and the cache that reset cleared
FreshHist ==
    [ncalls |-> 0, lastRet |-> U32Zero, read |-> FALSE, lastRead |-> U32Zero,
     afterReset |-> FALSE, preReset |-> U32Zero]

Called(h, v, isRead) ==
    [ncalls |-> IF h.ncalls < 2 THEN h.ncalls + 1 ELSE 2,
     lastRet |-> v,
     read |-> (isRead \/ h.read),
     lastRead |-> IF isRead THEN v ELSE h.lastRead,
     afterReset |-> FALSE, preReset |-> U32Zero]

\* pre: the cache before the call, h: the history before the call
NoCall ==
    [op |-> "none", pre |-> U32Zero, h |-> FreshHist, val |-> U32Zero,
     s64 |-> InoZero, size |-> 0, probes |-> <<>>, off0 |-> 0, ctx |-> Ctx(0),
     env |-> NoEnv]

\* before: the context before the call; updated: what lttng_context_update saw
NoReg == [op |-> "none", kind |-> "pid", alloc_ok |-> TRUE, ret |-> 0,
          calls |-> <<>>, before |-> <<>>, updated |-> <<>>]

\* start: the cache when the call loaded it; held: the value the thread holds in a
\* register; rc: what its stat returned (1: not called); nstat: its stat calls;
\* reset: a reset ran during the call; done, ret: the call returned ret
IdleFrame == [start |-> U32Zero, held |-> U32Zero, rc |-> 1, nstat |-> 0,
              reset |-> FALSE, done |-> FALSE, ret |-> U32Zero]

Builds == {"reload", "reuse"}

\* inum: the inode number of the namespace; switched: the caller entered it and
\* has not called reset since; left: the namespace it left then (InoZero: none);
\* stale: what its cache held when it left
NoSwitch == [inum |-> InoA, switched |-> FALSE, left |-> InoZero, stale |-> U32Zero]

\* phase: "none", "sized" (sizes computed, fields being recorded) or "done";
\* off0: the offset the commit started at; sizes: what get_size reported for each
\* field; idx: the fields recorded so far; ctx: the sink; touched: a reset or a
\* get_value ran between the size phase and the end of the record phase
NoCommit ==
    [phase |-> "none", off0 |-> 0, sizes |-> <<>>, idx |-> 0, ctx |-> Ctx(0),
     touched |-> FALSE]

RaceIdle ==
    /\ pc = [t \in Threads |-> "idle"]
    /\ frame = [t \in Threads |-> IdleFrame]
    /\ build = "reload"
    /\ pid_ns_inum = InoA

\* the state at load time, with the calls of a sequential run going from
\* thread self to provider kind
InitWith(kind, self) ==
    /\ provider = kind
    /\ caller = self
    /\ cached_pid_ns = U32Zero
    /\ cached_tls = [k \in TlsKinds |-> [t \in Threads |-> U32Zero]]
    /\ last = NoCall
    /\ hist = FreshHist
    /\ fields = <<>>
    /\ reg = NoReg
    /\ RaceIdle
    /\ commit = NoCommit
    /\ probed = {}
    /\ ns_now = NoSwitch

Init == \E k \in Kinds, t \in Threads : InitWith(k, t)

(***************************************************************************)
(* Call-level actions: one whole call of the caller to the provider.       *)
(***************************************************************************)
\* <kind>_ns_get_value, the read() of the field
GetValue(env) ==
    LET c == Cache(provider, caller)
        r == ns_get_value(provider, c, env)
    IN  /\ StoreCache(provider, caller, r.cached)
        /\ last' = [NoCall EXCEPT !.op = "get_value", !.pre = c, !.h = hist,
                                  !.val = r.ret, !.s64 = r.s64, !.probes = r.probes,
                                  !.env = env]
        /\ hist' = Called(hist, r.ret, TRUE)
        /\ UNCHANGED <<provider, caller, fields, reg, pc, frame, build, pid_ns_inum, commit, probed, ns_now>>

\* <kind>_ns_record on a sink whose cursor is at offset
Record(env, offset) ==
    LET c == Cache(provider, caller)
        r == ns_record(provider, c, env, Ctx(offset))
    IN  /\ StoreCache(provider, caller, r.cached)
        /\ last' = [NoCall EXCEPT !.op = "record", !.pre = c, !.h = hist,
                                  !.val = r.ret, !.probes = r.probes,
                                  !.off0 = offset, !.ctx = r.ctx, !.env = env]
        /\ hist' = Called(hist, r.ret, FALSE)
        /\ UNCHANGED <<provider, caller, fields, reg, pc, frame, build, pid_ns_inum, commit, probed, ns_now>>

\* lttng_context_<kind>_ns_reset
Reset ==
    LET c == Cache(provider, caller)
    IN  /\ StoreCache(provider, caller, ns_reset(c))
        /\ last' = [NoCall EXCEPT !.op = "reset", !.pre = c, !.h = hist]
        /\ hist' = [FreshHist EXCEPT !.afterReset = TRUE, !.preReset = c]
        /\ UNCHANGED <<provider, caller, fields, reg, pc, frame, build, pid_ns_inum, commit, probed, ns_now>>

\* <kind>_ns_get_size
GetSize(offset) ==
    /\ last' = [NoCall EXCEPT !.op = "get_size", !.pre = Cache(provider, caller),
                              !.h = hist, !.off0 = offset, !.size = ns_get_size(offset)]
    /\ UNCHANGED <<provider, caller, cached_pid_ns, cached_tls, hist, fields, reg,
                   pc, frame, build, pid_ns_inum, commit, probed, ns_now>>

\* lttng_fixup_<kind>_ns_tls; the pid provider has no TLS variable and no fixup
FixupTls ==
    LET c == Cache(provider, caller)
    IN  /\ provider # "pid"
        /\ StoreCache(provider, caller, ns_fixup_tls(c))
        /\ last' = [NoCall EXCEPT !.op = "fixup", !.pre = c, !.h = hist]
        /\ UNCHANGED <<provider, caller, hist, fields, reg, pc, frame, build, pid_ns_inum, commit, probed, ns_now>>

Offsets == 0..MaxOffset

Next ==
    \/ \E env \in Envs : GetValue(env)
    \/ \E env \in Envs, o \in Offsets : Record(env, o)
    \/ Reset
    \/ \E o \in Offsets : GetSize(o)
    \/ FixupTls

Spec == Init /\ [][Next]_vars

(***************************************************************************)
(* Vocabulary of the properties.                                           *)
(***************************************************************************)
IsResolve == last.op \in {"get_value", "record"}
NStat == Len(last.probes)
CacheNow == Cache(provider, caller)

\* the unsigned int v and the inode number ino are the same number
U32EqualsIno(v, ino) == ino = <<v[1], v[2], 0, 0>>

\* the low 32 bits of the inode number ino are v
Low32Is(ino, v) == ino[1] = v[1] /\ ino[2] = v[2]

\* the value record handed to the sink
Written == last.ctx.data[1].val

\* every probe the resolver can make in this environment fails
AllProbesFail(k, env) ==
    /\ env.primary.rc # 0
    /\ k # "pid" => (env.snprintf < 0 \/ env.fallback.rc # 0)

\* the stat result the resolver took its identifier from, StatFail if none
Probed(k, env) ==
    IF env.primary.rc = 0 THEN env.primary
    ELSE IF k # "pid" /\ env.snprintf >= 0 /\ env.fallback.rc = 0 THEN env.fallback
    ELSE StatFail

(***************************************************************************)
(* C1.  From a fresh cache (value 0, no call yet) the first get_value or   *)
(* record call makes one resolution attempt with one stat call, or two     *)
(* when the primary probe fails and the fallback is tried; the second      *)
(* call, with no reset in between, makes no stat call and returns the      *)
(* value the first call returned.                                          *)
(***************************************************************************)
C1_FirstResolvesSecondCached ==
    IsResolve =>
        /\ last.h.ncalls = 0 =>
              /\ last.pre = U32Zero
              /\ NStat \in {1, 2}
              /\ NStat = 2 => (last.env.primary.rc # 0 /\ last.probes[2] = "task")
        /\ last.h.ncalls = 1 =>
              /\ NStat = 0
              /\ last.val = last.h.lastRet

\* the part of C1 the code keeps: a second call after a first call that
\* returned a non-zero value makes no stat call and returns that value
C1_SecondCachedAfterSuccess ==
    IsResolve =>
        /\ last.h.ncalls = 0 =>
              /\ last.pre = U32Zero
              /\ NStat \in {1, 2}
              /\ NStat = 2 => (last.env.primary.rc # 0 /\ last.probes[2] = "task")
        /\ (last.h.ncalls = 1 /\ last.h.lastRet # U32Zero) =>
              /\ NStat = 0
              /\ last.val = last.h.lastRet

(***************************************************************************)
(* C2.  Cache hit: a get_value or record call that finds a non-zero value  *)
(* in the caller's cache returns (writes) exactly that value, makes no     *)
(* stat call and leaves the cache as it was.                               *)
(***************************************************************************)
C2_CacheHit ==
    (IsResolve /\ last.pre # U32Zero) =>
        /\ last.val = last.pre
        /\ NStat = 0
        /\ CacheNow = last.pre
        /\ last.op = "record" => Written = last.pre
        /\ last.op = "get_value" => U32EqualsIno(last.pre, last.s64)

C2_Witness ==
    /\ last.op = "record"
    /\ last.pre = U32(InoB)
    /\ Written = U32(InoB)

(***************************************************************************)
(* C3.  Invalidation: the first get_value after a reset makes a fresh      *)
(* resolution attempt (at least one stat call) and returns the freshly     *)
(* probed identifier, or 0 if every probe fails; it returns the value the  *)
(* reset cleared only if the probe reports that value again.               *)
(***************************************************************************)
C3_ResetThenRead ==
    (last.op = "get_value" /\ last.h.afterReset) =>
        LET st == Probed(provider, last.env)
        IN  /\ NStat >= 1
            /\ IF st.rc = 0 THEN U32EqualsIno(last.val, st.st_ino)
                            ELSE last.val = U32Zero
            /\ (last.val = last.h.preReset /\ last.val # U32Zero) =>
                   (st.rc = 0 /\ U32EqualsIno(last.h.preReset, st.st_ino))

\* C3 as amended: the value returned is the low 32 bits of the freshly
\* probed inode number, or 0 if every probe fails; the value the reset
\* cleared comes back only if the low 32 bits of the probe are that value.
C3_ResetThenReadLow32 ==
    (last.op = "get_value" /\ last.h.afterReset) =>
        LET st == Probed(provider, last.env)
        IN  /\ NStat >= 1
            /\ last.pre = U32Zero
            /\ IF st.rc = 0 THEN Low32Is(st.st_ino, last.val)
                            ELSE last.val = U32Zero
            /\ AllProbesFail(provider, last.env) => last.val = U32Zero
            /\ (last.val = last.h.preReset /\ last.val # U32Zero) =>
                   (st.rc = 0 /\ Low32Is(st.st_ino, last.h.preReset))
            /\ CacheNow = last.val

C3_Witness ==
    /\ last.op = "get_value"
    /\ last.h.afterReset
    /\ last.h.preReset = U32(InoA)
    /\ last.val = U32(InoB)

(***************************************************************************)
(* C4.  Resolution never fails the caller: when the cache is unresolved    *)
(* and every probe the call attempts fails, get_value / record still       *)
(* completes, yields 0 and leaves the cache at 0.                          *)
(***************************************************************************)
C4_FailureYieldsZero ==
    (IsResolve /\ last.pre = U32Zero /\ AllProbesFail(provider, last.env)) =>
        /\ last.val = U32Zero
        /\ CacheNow = U32Zero
        /\ NStat >= 1
        /\ last.op = "record" => Written = U32Zero
        /\ last.op = "get_value" => last.s64 = InoZero

C4_Witness ==
    /\ last.op = "record"
    /\ provider = "user"
    /\ last.pre = U32Zero
    /\ last.env.primary.rc # 0 /\ last.env.snprintf >= 0 /\ last.env.fallback.rc # 0
    /\ NStat = 2
    /\ Written = U32Zero

(***************************************************************************)
(* C5.  Two-phase agreement: record moves the cursor of the sink from      *)
(* offset o to o + get_size(o): the padding it consumed plus the 4 bytes   *)
(* of the value, whether the cache hit, missed or the resolution failed.   *)
(***************************************************************************)
C5_RecordAdvancesBySize ==
    last.op = "record" =>
        /\ last.ctx.buf_offset = last.off0 + ns_get_size(last.off0)
        /\ Len(last.ctx.data) = 1
        /\ last.ctx.data[1].len = 4
        /\ last.ctx.data[1].at + 4 = last.ctx.buf_offset
        /\ last.ctx.data[1].at >= last.off0

C5_Witness ==
    /\ last.op = "record"
    /\ last.off0 = 1
    /\ last.ctx.buf_offset = 8
    /\ last.pre = U32Zero
    /\ last.val = U32Zero

(***************************************************************************)
(* C6.  get_size(offset) is the padding that brings offset to the next     *)
(* multiple of the alignment of a 32-bit unsigned integer, plus 4; it      *)
(* depends on the offset alone and changes nothing.                        *)
(***************************************************************************)
AlignmentPadding(offset) ==
    CHOOSE p \in 0..3 : (offset + p) % 4 = 0

C6_GetSize ==
    last.op = "get_size" =>
        /\ last.size = AlignmentPadding(last.off0) + 4
        /\ CacheNow = last.pre
        /\ hist = last.h

C6_Witness ==
    /\ last.op = "get_size"
    /\ last.off0 = 3
    /\ last.size = 5
    /\ last.pre # U32Zero

(***************************************************************************)
(* C7.  The value record writes is the value the latest get_value          *)
(* returned, when the caller's cache was not reset between the two.        *)
(***************************************************************************)
C7_RecordWritesLastRead ==
    (last.op = "record" /\ last.h.read) => Written = last.h.lastRead

\* the part of C7 the code keeps: after a get_value that returned non-zero
C7_RecordWritesLastNonZeroRead ==
    (last.op = "record" /\ last.h.read /\ last.h.lastRead # U32Zero) =>
        Written = last.h.lastRead

(***************************************************************************)
(* Registration: lttng_add_<kind>_ns_to_ctx.  The context is the ordered   *)
(* sequence of its fields; a field is named by its index, 0 being NULL.    *)
(***************************************************************************)
FieldName(kind) ==
    CASE kind = "pid" -> "pid_ns"
      [] kind = "user" -> "user_ns"
      [] kind = "mnt" -> "mnt_ns"
      [] kind = "cgroup" -> "cgroup_ns"
      [] kind = "net" -> "net_ns"
      [] kind = "ipc" -> "ipc_ns"

\* a field as lttng_append_context hands it out: zeroed
EmptyField ==
    [name |-> "", atype |-> "", size |-> 0, alignment |-> 0, signedness |-> 0,
     reverse_byte_order |-> 0, base |-> 0, encoding |-> "",
     get_size |-> "", record |-> "", get_value |-> ""]

\* the field once lttng_add_<kind>_ns_to_ctx has filled it in
NsField(kind) ==
    [name |-> FieldName(kind), atype |-> "atype_integer",
     size |-> SizeofUInt * CharBit, alignment |-> AlignofUInt * CharBit,
     signedness |-> 0, reverse_byte_order |-> 0, base |-> 10,
     encoding |-> "lttng_encode_none",
     get_size |-> kind, record |-> kind, get_value |-> kind]

\* lttng_append_context: a new zeroed last field, or NULL when memory is short
lttng_append_context(fs, alloc_ok) ==
    IF alloc_ok THEN [fields |-> Append(fs, EmptyField), field |-> Len(fs) + 1]
                ELSE [fields |-> fs, field |-> 0]

\* lttng_find_context: whether a field of that name is in the context
lttng_find_context(fs, name) ==
    \E i \in 1..Len(fs) : fs[i].name # "" /\ fs[i].name = name

\* lttng_remove_context_field: drops the field, which is the last one
lttng_remove_context_field(fs, field) ==
    SubSeq(fs, 1, Len(fs) - 1)

\* lttng_context_update(*ctx): the registry is told that the fields changed;
\* seen is the sequence of the contexts it was shown so far
lttng_context_update(seen, fs) == Append(seen, fs)

\* lttng_add_<kind>_ns_to_ctx without the rollback of the appended field
lttng_add_ns_to_ctx_no_rollback(kind, fs, alloc_ok) ==
    LET a == lttng_append_context(fs, alloc_ok)
        filled == [a.fields EXCEPT ![a.field] = NsField(kind)]
    IN  IF a.field = 0
        THEN [fields |-> fs, ret |-> -ENOMEM, calls |-> <<"append">>,
              updated |-> <<>>]
        ELSE IF lttng_find_context(a.fields, FieldName(kind))
        THEN [fields |-> a.fields, ret |-> -EEXIST, calls |-> <<"append", "find">>,
              updated |-> <<>>]
        ELSE [fields |-> filled, ret |-> 0,
              calls |-> <<"append", "find", "fill", "update">>,
              updated |-> lttng_context_update(<<>>, filled)]

\* lttng_add_<kind>_ns_to_ctx looking the name up before it tests for NULL
lttng_add_ns_to_ctx_late_null_test(kind, fs, alloc_ok) ==
    LET a == lttng_append_context(fs, alloc_ok)
        filled == [a.fields EXCEPT ![a.field] = NsField(kind)]
    IN  IF lttng_find_context(a.fields, FieldName(kind))
        THEN IF a.field = 0
             THEN [fields |-> fs, ret |-> -EEXIST, calls |-> <<"append", "find">>,
                   updated |-> <<>>]
             ELSE [fields |-> lttng_remove_context_field(a.fields, a.field),
                   ret |-> -EEXIST, calls |-> <<"append", "find", "remove">>,
                   updated |-> <<>>]
        ELSE IF a.field = 0
        THEN [fields |-> fs, ret |-> -ENOMEM, calls |-> <<"append", "find">>,
              updated |-> <<>>]
        ELSE [fields |-> filled, ret |-> 0,
              calls |-> <<"append", "find", "fill", "update">>,
              updated |-> lttng_context_update(<<>>, filled)]

\* lttng_add_<kind>_ns_to_ctx calling lttng_context_update as soon as the name is
\* known to be free, before the descriptor is written
lttng_add_ns_to_ctx_early_update(kind, fs, alloc_ok) ==
    LET a == lttng_append_context(fs, alloc_ok)
        filled == [a.fields EXCEPT ![a.field] = NsField(kind)]
    IN  IF a.field = 0
        THEN [fields |-> fs, ret |-> -ENOMEM, calls |-> <<"append">>,
              updated |-> <<>>]
        ELSE IF lttng_find_context(a.fields, FieldName(kind))
        THEN [fields |-> lttng_remove_context_field(a.fields, a.field),
              ret |-> -EEXIST, calls |-> <<"append", "find", "remove">>,
              updated |-> <<>>]
        ELSE [fields |-> filled, ret |-> 0,
              calls |-> <<"append", "find", "update", "fill">>,
              updated |-> lttng_context_update(<<>>, a.fields)]

\* the context after the call, the value returned, the calls made on the
\* context, in order ("fill": the descriptor written, "update":
\* lttng_context_update), and the contexts lttng_context_update was shown
lttng_add_ns_to_ctx(kind, fs, alloc_ok) ==
    LET a == lttng_append_context(fs, alloc_ok)
        filled == [a.fields EXCEPT ![a.field] = NsField(kind)]
    IN  IF a.field = 0
        THEN [fields |-> fs, ret |-> -ENOMEM, calls |-> <<"append">>,
              updated |-> <<>>]
        ELSE IF lttng_find_context(a.fields, FieldName(kind))
        THEN [fields |-> lttng_remove_context_field(a.fields, a.field),
              ret |-> -EEXIST, calls |-> <<"append", "find", "remove">>,
              updated |-> <<>>]
        ELSE [fields |-> filled, ret |-> 0,
              calls |-> <<"append", "find", "fill", "update">>,
              updated |-> lttng_context_update(<<>>, filled)]

\* one call of lttng_add_<kind>_ns_to_ctx on the context
AddToCtx(kind, alloc_ok) ==
    LET r == lttng_add_ns_to_ctx(kind, fields, alloc_ok)
    IN  /\ fields' = r.fields
        /\ reg' = [op |-> "add", kind |-> kind, alloc_ok |-> alloc_ok, ret |-> r.ret,
                   calls |-> r.calls, before |-> fields, updated |-> r.updated]
        /\ UNCHANGED <<provider, caller, cached_pid_ns, cached_tls, last, hist,
                       pc, frame, build, pid_ns_inum, commit, probed, ns_now>>

RegNext == \E kind \in Kinds, alloc_ok \in BOOLEAN : AddToCtx(kind, alloc_ok)

\* registration runs before any field callback: the caches are at their load-time value
RegInit == InitWith("pid", 1)

SpecReg == RegInit /\ [][RegNext]_vars

\* the indexes of the fields of fs that carry the name of kind
Named(fs, kind) == {i \in 1..Len(fs) : fs[i].name = FieldName(kind)}

(***************************************************************************)
(* C8.  Registering a kind twice in one context: the first call returns 0  *)
(* and leaves exactly one field with the name of the kind; the second      *)
(* returns -EEXIST after removing the field it had appended, and the       *)
(* fields (their number, names and descriptors) are as the first call      *)
(* left them.                                                              *)
(***************************************************************************)
C8_RegisterTwice ==
    (reg.op = "add" /\ reg.alloc_ok) =>
        IF Named(reg.before, reg.kind) = {}
        THEN /\ reg.ret = 0
             /\ Cardinality(Named(fields, reg.kind)) = 1
             /\ Len(fields) = Len(reg.before) + 1
             /\ SubSeq(fields, 1, Len(reg.before)) = reg.before
             /\ fields[Len(fields)] = NsField(reg.kind)
        ELSE /\ reg.ret = -17
             /\ reg.calls = <<"append", "find", "remove">>
             /\ fields = reg.before
             /\ Cardinality(Named(fields, reg.kind)) = 1

C8_Witness ==
    /\ reg.op = "add"
    /\ reg.alloc_ok
    /\ reg.kind = "pid"
    /\ reg.ret = -17
    /\ Len(fields) = 2
    /\ fields[1].name = "pid_ns"

(***************************************************************************)
(* C9.  When the context cannot allocate a field, registering returns      *)
(* -ENOMEM and changes nothing: no field added, no lookup, no removal, no  *)
(* descriptor written, lttng_context_update not called.                    *)
(***************************************************************************)
C9_OutOfMemory ==
    (reg.op = "add" /\ ~reg.alloc_ok) =>
        /\ reg.ret = -12
        /\ fields = reg.before
        /\ reg.calls = <<"append">>

C9_Witness ==
    /\ reg.op = "add"
    /\ ~reg.alloc_ok
    /\ reg.ret = -12
    /\ Len(fields) = 1
    /\ reg.kind = "ipc"

(***************************************************************************)
(* Interleaved runs of the pid provider: the threads of one process call   *)
(* get_pid_ns (from pid_ns_get_value or pid_ns_record) and                 *)
(* lttng_context_pid_ns_reset with no lock; each access to cached_pid_ns   *)
(* is a step.  The accesses race, so the build decides whether the return  *)
(* statement loads cached_pid_ns again ("reload") or returns the value     *)
(* the thread already holds ("reuse").  The pid namespace of a process     *)
(* does not change: every successful stat of /proc/self/ns/pid reports     *)
(* pid_ns_inum.                                                            *)
(***************************************************************************)
\* the load and test of the cache that open a call
PidCall(t) ==
    /\ pc[t] = "idle"
    /\ frame' = [frame EXCEPT ![t] = [IdleFrame EXCEPT !.start = cached_pid_ns,
                                                      !.held = cached_pid_ns]]
    /\ pc' = [pc EXCEPT ![t] = IF pid_ns_miss(cached_pid_ns) THEN "stat" ELSE "ret"]
    /\ UNCHANGED <<provider, caller, cached_pid_ns, cached_tls, last, hist, fields, reg,
                   build, pid_ns_inum, commit, probed, ns_now>>

\* stat("/proc/self/ns/pid", &sb)
PidStat(t, rc) ==
    /\ pc[t] = "stat"
    /\ frame' = [frame EXCEPT ![t].rc = rc, ![t].nstat = @ + 1]
    /\ pc' = [pc EXCEPT ![t] = IF rc = 0 THEN "store" ELSE "ret"]
    /\ probed' = IF rc = 0 THEN probed \cup {pid_ns_stored(pid_ns_inum)} ELSE probed
    /\ UNCHANGED <<provider, caller, cached_pid_ns, cached_tls, last, hist, fields, reg,
                   build, pid_ns_inum, commit, ns_now>>

\* a store of whatever inode number a stat can report, as if the pid namespace
\* of the process could change between two stat calls
PidStoreAnyInode(t) ==
    /\ pc[t] = "store"
    /\ \E ino \in Inodes :
          /\ cached_pid_ns' = pid_ns_stored(ino)
          /\ frame' = [frame EXCEPT ![t].held = pid_ns_stored(ino)]
    /\ pc' = [pc EXCEPT ![t] = "ret"]
    /\ UNCHANGED <<provider, caller, cached_tls, last, hist, fields, reg, build,
                   pid_ns_inum, commit, probed, ns_now>>

\* cached_pid_ns = sb.st_ino
PidStore(t) ==
    /\ pc[t] = "store"
    /\ cached_pid_ns' = pid_ns_stored(pid_ns_inum)
    /\ frame' = [frame EXCEPT ![t].held = pid_ns_stored(pid_ns_inum)]
    /\ pc' = [pc EXCEPT ![t] = "ret"]
    /\ UNCHANGED <<provider, caller, cached_tls, last, hist, fields, reg, build,
                   pid_ns_inum, commit, probed, ns_now>>

\* return cached_pid_ns
PidReturn(t) ==
    /\ pc[t] = "ret"
    /\ frame' = [frame EXCEPT ![t].done = TRUE,
                              ![t].ret = IF build = "reload" THEN cached_pid_ns
                                                             ELSE frame[t].held]
    /\ pc' = [pc EXCEPT ![t] = "idle"]
    /\ UNCHANGED <<provider, caller, cached_pid_ns, cached_tls, last, hist, fields, reg,
                   build, pid_ns_inum, commit, probed, ns_now>>

\* lttng_context_pid_ns_reset, called by thread t
PidReset(t) ==
    /\ pc[t] = "idle"
    /\ cached_pid_ns' = ns_reset(cached_pid_ns)
    /\ probed' = {}
    /\ frame' = [u \in Threads |->
                    IF pc[u] # "idle" THEN [frame[u] EXCEPT !.reset = TRUE] ELSE frame[u]]
    /\ UNCHANGED <<provider, caller, cached_tls, last, hist, fields, reg, pc, build,
                   pid_ns_inum, commit, ns_now>>

RaceInit ==
    /\ provider = "pid"
    /\ caller = 1
    /\ cached_pid_ns = U32Zero
    /\ cached_tls = [k \in TlsKinds |-> [t \in Threads |-> U32Zero]]
    /\ last = NoCall
    /\ hist = FreshHist
    /\ fields = <<>>
    /\ reg = NoReg
    /\ pc = [t \in Threads |-> "idle"]
    /\ frame = [t \in Threads |-> IdleFrame]
    /\ build \in Builds
    /\ pid_ns_inum \in Inodes
    /\ commit = NoCommit
    /\ probed = {}
    /\ ns_now = NoSwitch

RaceNext ==
    \/ \E t \in Threads : PidCall(t)
    \/ \E t \in Threads, rc \in {-1, 0} : PidStat(t, rc)
    \/ \E t \in Threads : PidStore(t)
    \/ \E t \in Threads : PidReturn(t)
    \/ \E t \in Threads : PidReset(t)

SpecRace == RaceInit /\ [][RaceNext]_vars

(***************************************************************************)
(* C10.  The pid cache is process-wide: once a thread has resolved the     *)
(* pid namespace to a non-zero value, a call of any other thread that      *)
(* starts after that, with no reset during it, returns that same value     *)
(* and makes no stat call.                                                 *)
(***************************************************************************)
C10_PidCacheShared ==
    \A t \in Threads :
        (frame[t].done /\ frame[t].start # U32Zero /\ ~frame[t].reset) =>
            /\ frame[t].ret = frame[t].start
            /\ frame[t].nstat = 0
            /\ Low32Is(pid_ns_inum, frame[t].ret)

\* thread 1 resolved the value with a stat call, thread 2 then got it with none
C10_Witness ==
    /\ frame[1].done /\ frame[1].nstat = 1 /\ frame[1].rc = 0
    /\ frame[1].start = U32Zero /\ frame[1].ret = U32(InoA)
    /\ frame[2].done /\ frame[2].nstat = 0 /\ ~frame[2].reset
    /\ frame[2].start = U32(InoA) /\ frame[2].ret = U32(InoA)

(***************************************************************************)
(* Interleaved runs of a thread-scoped provider (user, mnt, cgroup, net,   *)
(* ipc): every thread calls get_<kind>_ns (from get_value or record) and   *)
(* reset on its own, and each statement that touches                       *)
(* URCU_TLS(cached_<kind>_ns), each stat and the snprintf is a step.       *)
(***************************************************************************)
\* op: the entry point the thread ran last; start: its cache when the call loaded
\* it; sb: the stat buffer of the call; nstat: its stat calls; done, ret: the call
\* returned ret; own: the value the thread itself last left in its cache;
\* reset: another thread ran reset while this thread's cache held the resolved
\* value it holds
TlsIdleFrame ==
    [op |-> "none", start |-> U32Zero, sb |-> InoZero, nstat |-> 0, done |-> FALSE,
     ret |-> U32Zero, own |-> U32Zero, reset |-> FALSE]

TlsFrame(t, op) ==
    [TlsIdleFrame EXCEPT !.op = op, !.own = frame[t].own, !.reset = frame[t].reset]

\* if (!cached_<kind>_ns): the load and test that open get_<kind>_ns
TlsCall(t) ==
    LET c == Cache(provider, t)
    IN  /\ pc[t] = "idle"
        /\ frame' = [frame EXCEPT ![t] = [TlsFrame(t, "get") EXCEPT !.start = c]]
        /\ pc' = [pc EXCEPT ![t] = IF c = U32Zero THEN "primary" ELSE "ret"]
        /\ UNCHANGED <<provider, caller, cached_pid_ns, cached_tls, last, hist, fields,
                       reg, build, pid_ns_inum, commit, probed, ns_now>>

\* stat("/proc/thread-self/ns/<kind>", &sb)
TlsStatPrimary(t, st) ==
    /\ pc[t] = "primary"
    /\ frame' = [frame EXCEPT ![t].sb = st.st_ino, ![t].nstat = @ + 1]
    /\ pc' = [pc EXCEPT ![t] = IF st.rc = 0 THEN "store" ELSE "snprintf"]
    /\ UNCHANGED <<provider, caller, cached_pid_ns, cached_tls, last, hist, fields,
                   reg, build, pid_ns_inum, commit, probed, ns_now>>

\* snprintf(proc_ns_path, ..., "/proc/self/task/%d/ns/<kind>", gettid())
TlsSnprintf(t, n) ==
    /\ pc[t] = "snprintf"
    /\ pc' = [pc EXCEPT ![t] = IF n < 0 THEN "ret" ELSE "fallback"]
    /\ UNCHANGED <<provider, caller, cached_pid_ns, cached_tls, last, hist, fields,
                   reg, frame, build, pid_ns_inum, commit, probed, ns_now>>

\* stat(proc_ns_path, &sb)
TlsStatFallback(t, st) ==
    /\ pc[t] = "fallback"
    /\ frame' = [frame EXCEPT ![t].sb = st.st_ino, ![t].nstat = @ + 1]
    /\ pc' = [pc EXCEPT ![t] = IF st.rc = 0 THEN "store" ELSE "ret"]
    /\ UNCHANGED <<provider, caller, cached_pid_ns, cached_tls, last, hist, fields,
                   reg, build, pid_ns_inum, commit, probed, ns_now>>

\* URCU_TLS(cached_<kind>_ns) = sb.st_ino
TlsStore(t) ==
    /\ pc[t] = "store"
    /\ StoreCache(provider, t, U32(frame[t].sb))
    /\ frame' = [frame EXCEPT ![t].own = U32(frame[t].sb), ![t].reset = FALSE]
    /\ pc' = [pc EXCEPT ![t] = "ret"]
    /\ UNCHANGED <<provider, caller, last, hist, fields, reg, build, pid_ns_inum, commit, probed, ns_now>>

\* return URCU_TLS(cached_<kind>_ns)
TlsReturn(t) ==
    /\ pc[t] = "ret"
    /\ frame' = [frame EXCEPT ![t].done = TRUE, ![t].ret = Cache(provider, t),
                              ![t].sb = InoZero]
    /\ pc' = [pc EXCEPT ![t] = "idle"]
    /\ UNCHANGED <<provider, caller, cached_pid_ns, cached_tls, last, hist, fields,
                   reg, build, pid_ns_inum, commit, probed, ns_now>>

\* lttng_context_<kind>_ns_reset, called by thread t
TlsReset(t) ==
    LET c == Cache(provider, t)
    IN  /\ pc[t] = "idle"
        /\ StoreCache(provider, t, ns_reset(c))
        /\ frame' = [u \in Threads |->
                        IF u = t
                        THEN [TlsIdleFrame EXCEPT !.op = "reset", !.done = TRUE,
                                                  !.own = ns_reset(c)]
                        ELSE [frame[u] EXCEPT !.reset = (frame[u].own # U32Zero)]]
        /\ UNCHANGED <<provider, caller, last, hist, fields, reg, pc, build,
                       pid_ns_inum, commit, probed, ns_now>>

TlsInit ==
    /\ provider \in TlsKinds
    /\ caller = 1
    /\ cached_pid_ns = U32Zero
    /\ cached_tls = [k \in TlsKinds |-> [t \in Threads |-> U32Zero]]
    /\ last = NoCall
    /\ hist = FreshHist
    /\ fields = <<>>
    /\ reg = NoReg
    /\ pc = [t \in Threads |-> "idle"]
    /\ frame = [t \in Threads |-> TlsIdleFrame]
    /\ build = "reload"
    /\ pid_ns_inum = InoA
    /\ commit = NoCommit
    /\ probed = {}
    /\ ns_now = NoSwitch

TlsNext ==
    \/ \E t \in Threads : TlsCall(t)
    \/ \E t \in Threads, st \in StatResults : TlsStatPrimary(t, st)
    \/ \E t \in Threads, n \in SnprintfResults : TlsSnprintf(t, n)
    \/ \E t \in Threads, st \in StatResults : TlsStatFallback(t, st)
    \/ \E t \in Threads : TlsStore(t)
    \/ \E t \in Threads : TlsReturn(t)
    \/ \E t \in Threads : TlsReset(t)

SpecTls == TlsInit /\ [][TlsNext]_vars

(***************************************************************************)
(* C11.  The cache of a thread-scoped kind is touched by its own thread    *)
(* only: under every interleaving the cache of each thread holds the value *)
(* that thread itself last left in it, whatever get_value, record and      *)
(* reset calls the other threads made; and a call of a thread whose cache  *)
(* is resolved makes no stat call and returns that value even when another *)
(* thread ran reset since the value was stored.                            *)
(***************************************************************************)
C11_TlsCacheOwned ==
    \A t \in Threads :
        /\ cached_tls[provider][t] = frame[t].own
        /\ (frame[t].op = "get" /\ frame[t].done /\ frame[t].reset
               /\ frame[t].start # U32Zero) =>
              /\ frame[t].nstat = 0
              /\ frame[t].ret = frame[t].start

\* thread 1 holds a resolved value, thread 2 ran reset on its own resolved cache,
\* and the call of thread 1 that followed made no stat call
C11_Witness ==
    /\ frame[1].op = "get" /\ frame[1].done /\ frame[1].reset
    /\ frame[1].start = U32(InoA) /\ frame[1].ret = U32(InoA) /\ frame[1].nstat = 0
    /\ frame[2].op = "reset"
    /\ cached_tls[provider][1] = U32(InoA)
    /\ cached_tls[provider][2] = U32Zero

(***************************************************************************)
(* C12.  No retry: a call probes each file at most once, and once a call   *)
(* has returned 0 the get_value and record calls that follow make no stat  *)
(* call until the next reset of that cache.                                *)
(***************************************************************************)
C12_NoRetryUntilReset ==
    IsResolve =>
        /\ \A i, j \in 1..NStat : last.probes[i] = last.probes[j] => i = j
        /\ (last.h.ncalls >= 1 /\ last.h.lastRet = U32Zero) => NStat = 0

\* the part of C12 the code keeps: within one call no file is probed twice
C12_NoRetryWithinCall ==
    IsResolve =>
        /\ \A i, j \in 1..NStat : last.probes[i] = last.probes[j] => i = j
        /\ NStat <= 2

(***************************************************************************)
(* C13.  Benign race on the pid cache: under every interleaving of the     *)
(* calls of several threads, every store into cached_pid_ns writes the     *)
(* one identifier of the pid namespace of the process, so the cache holds  *)
(* 0 or that value, a second store under a race writes the value the       *)
(* first wrote, and no step takes the cache from a non-zero value to a     *)
(* different non-zero value.                                               *)
(***************************************************************************)
PidCacheFinal ==
    /\ cached_pid_ns \in {U32Zero, U32(pid_ns_inum)}
    /\ \A t \in Threads :
           (pc[t] \in {"ret", "idle"} /\ frame[t].rc = 0) =>
               frame[t].held = U32(pid_ns_inum)

PidCacheKeepsNonZero ==
    (cached_pid_ns # U32Zero /\ cached_pid_ns' # U32Zero) =>
        cached_pid_ns' = cached_pid_ns

C13_PidCacheWrittenOnce == []PidCacheFinal /\ [][PidCacheKeepsNonZero]_vars

\* both threads missed the cache and both stored: two writes, one value
C13_Witness ==
    /\ pid_ns_inum = InoB
    /\ frame[1].done /\ frame[1].start = U32Zero /\ frame[1].rc = 0
    /\ frame[1].nstat = 1 /\ ~frame[1].reset
    /\ pc[2] = "ret" /\ frame[2].start = U32Zero /\ frame[2].rc = 0
    /\ frame[2].nstat = 1 /\ ~frame[2].reset
    /\ cached_pid_ns = U32(InoB)

(***************************************************************************)
(* C14.  On a successful probe the value stored in the cache and returned  *)
(* is the inode number stat reported, for every inode number it can        *)
(* report.                                                                 *)
(***************************************************************************)
C14_StoresInode ==
    (IsResolve /\ last.pre = U32Zero /\ Probed(provider, last.env).rc = 0) =>
        LET st == Probed(provider, last.env)
        IN  /\ U32EqualsIno(CacheNow, st.st_ino)
            /\ U32EqualsIno(last.val, st.st_ino)

\* C14 as amended: the value stored and returned is the low 32 bits of the
\* inode number, which is the inode number itself when it is below 2^32
C14_StoresLow32OfInode ==
    (IsResolve /\ last.pre = U32Zero /\ Probed(provider, last.env).rc = 0) =>
        LET st == Probed(provider, last.env)
        IN  /\ CacheNow = last.val
            /\ Low32Is(st.st_ino, last.val)
            /\ (st.st_ino[3] = 0 /\ st.st_ino[4] = 0) =>
                   /\ U32EqualsIno(CacheNow, st.st_ino)
                   /\ U32EqualsIno(last.val, st.st_ino)
            /\ last.op = "get_value" => last.s64 = S64OfU32(last.val)
            /\ last.op = "record" => Written = last.val

\* the net provider read 4026531840 from the primary probe
C14_Witness ==
    /\ last.op = "get_value"
    /\ provider = "net"
    /\ last.pre = U32Zero
    /\ last.env.primary = StatOk(<<0, 61440, 0, 0>>)
    /\ last.val = <<0, 61440>>
    /\ CacheNow = <<0, 61440>>
    /\ last.s64 = <<0, 61440, 0, 0>>

(***************************************************************************)
(* C15.  get_value hands out the unsigned 32-bit value the resolver        *)
(* returned, zero-extended to the signed 64-bit slot: the s64 is that      *)
(* number, its high 32 bits are 0 and it is never negative, also for       *)
(* values of 2^31 and more such as 4026531840.                             *)
(***************************************************************************)
C15_ReadZeroExtends ==
    last.op = "get_value" =>
        /\ last.val = CacheNow
        /\ U32EqualsIno(last.val, last.s64)
        /\ last.s64[3] = 0 /\ last.s64[4] = 0
        /\ ~S64IsNegative(last.s64)

\* a cache hit on 4026531840, whose bit 31 is set
C15_Witness ==
    /\ last.op = "get_value"
    /\ last.pre = <<0, 61440>>
    /\ last.val[2] >= 2^15
    /\ last.s64 = <<0, 61440, 0, 0>>

(***************************************************************************)
(* C16.  Probe order and bound: a call of a thread-scoped provider that    *)
(* misses the cache passes /proc/thread-self/ns/<kind> to stat first and   *)
(* /proc/self/task/<tid>/ns/<kind> second, the second only when the first  *)
(* stat failed: two stat calls at most, and none of the task file after a  *)
(* successful primary probe.  A call of the pid provider that misses makes *)
(* one stat call, of /proc/self/ns/pid, and has no fallback.  A call that  *)
(* hits makes none.                                                        *)
(***************************************************************************)
C16_ProbeOrder ==
    IsResolve =>
        IF provider = "pid"
        THEN /\ last.probes \in {<<>>, <<"self">>}
             /\ last.pre = U32Zero <=> last.probes = <<"self">>
        ELSE /\ last.probes \in {<<>>, <<"thread-self">>, <<"thread-self", "task">>}
             /\ last.pre = U32Zero <=> NStat >= 1
             /\ NStat = 2 => last.env.primary.rc # 0
             /\ (last.pre = U32Zero /\ last.env.primary.rc = 0) =>
                    /\ last.probes = <<"thread-self">>
                    /\ Low32Is(last.env.primary.st_ino, last.val)

\* the cgroup provider fell back to the task file after the primary probe failed
C16_Witness ==
    /\ last.op = "get_value"
    /\ provider = "cgroup"
    /\ last.probes = <<"thread-self", "task">>
    /\ last.env.primary.rc # 0
    /\ last.env.fallback = StatOk(InoB)
    /\ last.val = U32(InoB)

(***************************************************************************)
(* C17.  For a thread-scoped provider, when the primary stat fails and the *)
(* snprintf of the task path fails, the call gives the resolution up: the  *)
(* task file is not passed to stat, the cache stays 0 and the call yields  *)
(* 0, also when that file would have stat'ed.                              *)
(***************************************************************************)
C17_SnprintfFailureAborts ==
    (IsResolve /\ provider # "pid" /\ last.pre = U32Zero
        /\ last.env.primary.rc # 0 /\ last.env.snprintf < 0) =>
        /\ last.probes = <<"thread-self">>
        /\ CacheNow = U32Zero
        /\ last.val = U32Zero
        /\ last.op = "record" => Written = U32Zero
        /\ last.op = "get_value" => last.s64 = InoZero

C17_Witness ==
    /\ last.op = "get_value"
    /\ provider = "mnt"
    /\ last.pre = U32Zero
    /\ last.env.primary.rc # 0
    /\ last.env.snprintf < 0
    /\ last.env.fallback = StatOk(InoB)
    /\ last.probes = <<"thread-self">>
    /\ last.val = U32Zero

(***************************************************************************)
(* C18.  A registration that succeeds calls lttng_context_update exactly   *)
(* once, as its last call, and the context the registry is shown then      *)
(* already ends with the complete descriptor (name, integer type, the      *)
(* three callbacks); a registration that fails, with -ENOMEM or with       *)
(* -EEXIST, does not call lttng_context_update.                            *)
(***************************************************************************)
C18_UpdateOncePopulated ==
    reg.op = "add" =>
        IF reg.ret = 0
        THEN /\ reg.calls = <<"append", "find", "fill", "update">>
             /\ Len(reg.updated) = 1
             /\ reg.updated[1] = fields
             /\ LET shown == reg.updated[1][Len(reg.updated[1])]
                IN  /\ shown = NsField(reg.kind)
                    /\ shown.name = FieldName(reg.kind)
                    /\ shown.atype = "atype_integer"
                    /\ shown.size = 32 /\ shown.alignment = 32
                    /\ shown.get_size = reg.kind
                    /\ shown.record = reg.kind
                    /\ shown.get_value = reg.kind
        ELSE /\ reg.ret \in {-12, -17}
             /\ reg.updated = <<>>
             /\ \A i \in 1..Len(reg.calls) : reg.calls[i] # "update"

\* cgroup_ns registered as the second field of a context
C18_Witness ==
    /\ reg.op = "add"
    /\ reg.kind = "cgroup"
    /\ reg.ret = 0
    /\ Len(reg.before) = 1
    /\ Len(reg.updated) = 1
    /\ reg.updated[1][2].name = "cgroup_ns"
    /\ reg.updated[1][2].get_value = "cgroup"

(***************************************************************************)
(* The commit of one event by the caller: the tracer asks every field of   *)
(* the context for its size, in order, the offset accumulating, reserves   *)
(* that much, then has every field record itself, in the same order, on    *)
(* the sink.  The context does not change during a commit; the caches may, *)
(* by a reset or a get_value.                                              *)
(***************************************************************************)
\* the kinds whose fields the commits of the model register
CommitKinds == {"user", "ipc"}

RECURSIVE ctx_get_size(_, _)
\* offset += fields[i].get_size(&fields[i], offset) for each field: the sizes
ctx_get_size(offset, fs) ==
    IF fs = <<>> THEN <<>>
    ELSE LET size == ns_get_size(offset)
         IN  <<size>> \o ctx_get_size(offset + size, Tail(fs))

RECURSIVE SumTo(_, _)
\* the sum of the first n elements of the sequence of numbers q
SumTo(q, n) == IF n = 0 THEN 0 ELSE SumTo(q, n - 1) + q[n]

\* lttng_add_<kind>_ns_to_ctx, between two commits
CommitRegister(kind, alloc_ok) ==
    /\ commit.phase # "sized"
    /\ AddToCtx(kind, alloc_ok)

\* the size phase of a commit that starts at offset
CommitGetSize(offset) ==
    /\ commit.phase # "sized"
    /\ fields # <<>>
    /\ commit' = [NoCommit EXCEPT !.phase = "sized", !.off0 = offset,
                                  !.sizes = ctx_get_size(offset, fields),
                                  !.ctx = Ctx(offset)]
    /\ UNCHANGED <<provider, caller, cached_pid_ns, cached_tls, last, hist, fields,
                   reg, pc, frame, build, pid_ns_inum, probed, ns_now>>

\* fields[i].record(&fields[i], ctx, chan) for the next field of the commit
CommitRecord(env) ==
    LET i == commit.idx + 1
        kind == fields[i].record
        r == ns_record(kind, Cache(kind, caller), env, commit.ctx)
    IN  /\ commit.phase = "sized"
        /\ StoreCache(kind, caller, r.cached)
        /\ commit' = [commit EXCEPT !.idx = i, !.ctx = r.ctx,
                                    !.phase = IF i = Len(fields) THEN "done"
                                                                 ELSE "sized"]
        /\ UNCHANGED <<provider, caller, last, hist, fields, reg, pc, frame, build,
                       pid_ns_inum, probed, ns_now>>

\* lttng_context_<kind>_ns_reset by the caller, at any point
CommitReset(kind) ==
    /\ StoreCache(kind, caller, ns_reset(Cache(kind, caller)))
    /\ commit' = [commit EXCEPT !.touched = (@ \/ commit.phase = "sized")]
    /\ UNCHANGED <<provider, caller, last, hist, fields, reg, pc, frame, build,
                   pid_ns_inum, probed, ns_now>>

\* <kind>_ns_get_value by the caller, at any point
CommitGetValue(kind, env) ==
    LET r == ns_get_value(kind, Cache(kind, caller), env)
    IN  /\ StoreCache(kind, caller, r.cached)
        /\ commit' = [commit EXCEPT !.touched = (@ \/ commit.phase = "sized")]
        /\ UNCHANGED <<provider, caller, last, hist, fields, reg, pc, frame, build,
                       pid_ns_inum, probed, ns_now>>

CommitInit == InitWith("user", 1)

CommitNext ==
    \/ \E kind \in CommitKinds, alloc_ok \in BOOLEAN : CommitRegister(kind, alloc_ok)
    \/ \E o \in Offsets : CommitGetSize(o)
    \/ \E env \in Envs : CommitRecord(env)
    \/ \E kind \in CommitKinds : CommitReset(kind)
    \/ \E kind \in CommitKinds, env \in Envs : CommitGetValue(kind, env)

SpecCommit == CommitInit /\ [][CommitNext]_vars

(***************************************************************************)
(* C19.  Multi-field commit: when the sizes of the fields were computed in *)
(* order from the starting offset and the fields are then recorded in the  *)
(* same order on a sink that starts at that offset, the cursor after the   *)
(* i-th field is the starting offset plus the first i sizes, so the final  *)
(* cursor is the starting offset plus the sum of the sizes, and the 4      *)
(* bytes of every field start at a multiple of 4; resets and resolutions   *)
(* between the size phase and the record phase do not change this.         *)
(***************************************************************************)
C19_CommitAgreement ==
    commit.phase \in {"sized", "done"} =>
        /\ commit.phase = "sized" => Len(commit.sizes) = Len(fields)
        /\ Len(commit.ctx.data) = commit.idx
        /\ commit.ctx.buf_offset = commit.off0 + SumTo(commit.sizes, commit.idx)
        /\ commit.phase = "done" =>
              /\ commit.idx = Len(commit.sizes)
              /\ commit.ctx.buf_offset =
                     commit.off0 + SumTo(commit.sizes, Len(commit.sizes))
        /\ \A i \in 1..commit.idx :
              /\ commit.ctx.data[i].len = 4
              /\ commit.ctx.data[i].at % 4 = 0
              /\ commit.ctx.data[i].at + 4 =
                     commit.off0 + SumTo(commit.sizes, i)

\* two fields committed from offset 3, the first written as 0 and the second as a
\* resolved value, with a reset or a get_value between the two phases
C19_Witness ==
    /\ commit.phase = "done"
    /\ commit.idx = 2
    /\ commit.off0 = 3
    /\ commit.sizes = <<5, 4>>
    /\ commit.ctx.buf_offset = 12
    /\ commit.touched
    /\ commit.ctx.data[1].val = U32Zero
    /\ commit.ctx.data[2].val = U32(InoA)

(***************************************************************************)
(* The entry points of one provider and its registration, called by one    *)
(* thread in any order.                                                    *)
(***************************************************************************)
FrameInit == InitWith("net", 1)

FrameNext ==
    \/ Next
    \/ \E alloc_ok \in BOOLEAN : AddToCtx(provider, alloc_ok)

SpecFrame == FrameInit /\ [][FrameNext]_vars

(***************************************************************************)
(* C20.  The caches change only in a get_value or record call that missed  *)
(* and probed, and in reset: get_size, the TLS fixup and the registration, *)
(* whatever it returns, leave every cache of every kind and thread as it   *)
(* was and make no stat call, and reset makes none either.                 *)
(***************************************************************************)
AllCaches == <<cached_pid_ns, cached_tls>>

FrameQuiet ==
    /\ last.op \in {"get_size", "fixup", "reset"} => last.probes = <<>>
    /\ last.op \in {"get_size", "fixup"} => CacheNow = last.pre
    /\ last.op = "reset" => CacheNow = U32Zero
    /\ (IsResolve /\ CacheNow # last.pre) => (last.pre = U32Zero /\ NStat >= 1)
    /\ reg.op = "add" =>
          /\ reg.ret \in {0, -12, -17}
          /\ \A i \in 1..Len(reg.calls) :
                 reg.calls[i] \in {"append", "find", "remove", "fill", "update"}

CacheChangeIsResolveOrReset ==
    AllCaches' # AllCaches =>
        /\ reg' = reg
        /\ fields' = fields
        /\ last' # last
        /\ \/ last'.op = "reset"
           \/ /\ last'.op \in {"get_value", "record"}
              /\ last'.pre = U32Zero
              /\ Len(last'.probes) >= 1

C20_OnlyResolveAndResetWrite == []FrameQuiet /\ [][CacheChangeIsResolveOrReset]_vars

\* a fixup on a resolved cache and a registration refused with -EEXIST, the cache
\* still holding the resolved value
C20_Witness ==
    /\ last.op = "fixup"
    /\ last.pre = U32(InoA)
    /\ CacheNow = U32(InoA)
    /\ reg.op = "add"
    /\ reg.ret = -17
    /\ cached_tls["net"][1] = U32(InoA)

(***************************************************************************)
(* C21.  In every reachable state a cache holds 0 or the value, as stored  *)
(* in 32 bits, that a successful probe reported for that kind in that      *)
(* scope after the latest reset of that scope.  For the pid cache, shared  *)
(* by the threads of the process: 0 or a value that a successful stat of   *)
(* /proc/self/ns/pid reported since the latest reset.                      *)
(***************************************************************************)
C21_CacheHoldsFreshProbe ==
    cached_pid_ns = U32Zero \/ cached_pid_ns \in probed

\* the part of C21 the code keeps when one thread makes the calls: a step
\* that changes the cache is a reset, which clears it, or a call that stores
\* what its own successful probe reported
SequentialStore ==
    CacheNow' # CacheNow =>
        \/ last'.op = "reset" /\ CacheNow' = U32Zero
        \/ /\ last'.op \in {"get_value", "record"}
           /\ Probed(provider, last'.env).rc = 0
           /\ CacheNow' = U32(Probed(provider, last'.env).st_ino)

C21_SequentialStoresOwnProbe == [][SequentialStore]_vars

(***************************************************************************)
(* Namespace switches of the caller, for a thread-scoped provider.  The    *)
(* caller enters another namespace of the kind (setns, unshare) and, as    *)
(* the providers require, calls reset before its next get_value or record. *)
(* A stat of the namespace file of the caller that succeeds reports the    *)
(* inode number of the namespace the caller is in.                         *)
(***************************************************************************)
\* what a resolver call of the caller can meet while it is in namespace ino
EnvsIn(ino) ==
    {[primary |-> p, snprintf |-> n, fallback |-> f] :
        p \in {StatFail, StatOk(ino)}, n \in SnprintfResults,
        f \in {StatFail, StatOk(ino)}}

\* ns: the namespace the caller was in when it made the call
NoSwitchCall ==
    [op |-> "none", ns |-> InoZero, pre |-> U32Zero, val |-> U32Zero,
     s64 |-> InoZero, written |-> U32Zero]

\* setns(2) / unshare(2) by the caller: it is now in the namespace ino
Setns(ino) ==
    /\ ~ns_now.switched
    /\ ino # ns_now.inum
    /\ ns_now' = [inum |-> ino, switched |-> TRUE, left |-> ns_now.inum,
                  stale |-> Cache(provider, caller)]
    /\ UNCHANGED <<provider, caller, cached_pid_ns, cached_tls, last, hist, fields,
                   reg, pc, frame, build, pid_ns_inum, commit, probed>>

\* lttng_context_<kind>_ns_reset by the caller
SwitchReset ==
    LET c == Cache(provider, caller)
    IN  /\ StoreCache(provider, caller, ns_reset(c))
        /\ ns_now' = [ns_now EXCEPT !.switched = FALSE]
        /\ last' = [NoSwitchCall EXCEPT !.op = "reset", !.ns = ns_now.inum, !.pre = c]
        /\ UNCHANGED <<provider, caller, hist, fields, reg, pc, frame, build,
                       pid_ns_inum, commit, probed>>

\* <kind>_ns_get_value by the caller, after the reset that follows a switch
SwitchGetValue(env) ==
    LET c == Cache(provider, caller)
        r == ns_get_value(provider, c, env)
    IN  /\ ~ns_now.switched
        /\ StoreCache(provider, caller, r.cached)
        /\ last' = [NoSwitchCall EXCEPT !.op = "get_value", !.ns = ns_now.inum,
                                        !.pre = c, !.val = r.ret, !.s64 = r.s64]
        /\ UNCHANGED <<provider, caller, hist, fields, reg, pc, frame, build,
                       pid_ns_inum, commit, probed, ns_now>>

\* <kind>_ns_record by the caller, after the reset that follows a switch
SwitchRecord(env, offset) ==
    LET c == Cache(provider, caller)
        r == ns_record(provider, c, env, Ctx(offset))
    IN  /\ ~ns_now.switched
        /\ StoreCache(provider, caller, r.cached)
        /\ last' = [NoSwitchCall EXCEPT !.op = "record", !.ns = ns_now.inum,
                                        !.pre = c, !.val = r.ret,
                                        !.written = r.ctx.data[1].val]
        /\ UNCHANGED <<provider, caller, hist, fields, reg, pc, frame, build,
                       pid_ns_inum, commit, probed, ns_now>>

SwitchInit ==
    /\ provider \in TlsKinds
    /\ caller = 1
    /\ cached_pid_ns = U32Zero
    /\ cached_tls = [k \in TlsKinds |-> [t \in Threads |-> U32Zero]]
    /\ last = NoSwitchCall
    /\ hist = FreshHist
    /\ fields = <<>>
    /\ reg = NoReg
    /\ RaceIdle
    /\ commit = NoCommit
    /\ probed = {}
    /\ ns_now = NoSwitch

SwitchNext ==
    \/ \E ino \in Inodes : Setns(ino)
    \/ SwitchReset
    \/ \E env \in EnvsIn(ns_now.inum) : SwitchGetValue(env)
    \/ \E env \in EnvsIn(ns_now.inum), o \in Offsets : SwitchRecord(env, o)

SpecSwitch == SwitchInit /\ [][SwitchNext]_vars

(***************************************************************************)
(* C22.  Freshness under the reset discipline: when the caller calls reset *)
(* after each of its namespace switches, before its next get_value or      *)
(* record, every value get_value returns or record writes is 0 or the      *)
(* inode number of the namespace the caller is in at the time of the call. *)
(***************************************************************************)
C22_FreshUnderResetDiscipline ==
    last.op \in {"get_value", "record"} =>
        /\ last.val = U32Zero \/ U32EqualsIno(last.val, last.ns)
        /\ last.op = "get_value" => (last.s64 = InoZero \/ last.s64 = last.ns)
        /\ last.op = "record" =>
               (last.written = U32Zero \/ U32EqualsIno(last.written, last.ns))

\* C22 as amended: the value is 0 or the low 32 bits of the inode number of
\* the namespace the caller is in, which is that inode number when it is
\* below 2^32
C22_FreshLow32UnderResetDiscipline ==
    last.op \in {"get_value", "record"} =>
        /\ last.val = U32Zero \/ Low32Is(last.ns, last.val)
        /\ (last.ns[3] = 0 /\ last.ns[4] = 0) =>
               (last.val = U32Zero \/ U32EqualsIno(last.val, last.ns))
        /\ last.op = "get_value" => last.s64 = S64OfU32(last.val)
        /\ last.op = "record" => last.written = last.val

\* the caller left the namespace its cache had resolved, called reset, and the
\* get_value that followed returned the namespace it is in now
C22_Witness ==
    /\ last.op = "get_value"
    /\ ns_now.left = InoA
    /\ ns_now.stale = U32(InoA)
    /\ ns_now.inum = InoB
    /\ last.ns = InoB
    /\ last.pre = U32Zero
    /\ last.val = U32(InoB)

(***************************************************************************)
(* C23.  A pid call that misses the cache and whose stat succeeds with a   *)
(* non-zero identifier returns the value it stored, whatever resets and    *)
(* calls the other threads of the process make meanwhile.                  *)
(***************************************************************************)
C23_PidMissReturnsStored ==
    \A t \in Threads :
        (/\ frame[t].done
         /\ frame[t].start = U32Zero
         /\ frame[t].rc = 0
         /\ pid_ns_stored(pid_ns_inum) # U32Zero) =>
            frame[t].ret = pid_ns_stored(pid_ns_inum)

\* what holds instead: such a call returns the value it stored or, when a
\* reset ran during it, possibly 0
C23_PidMissReturnsStoredOrZero ==
    \A t \in Threads :
        (frame[t].done /\ frame[t].start = U32Zero /\ frame[t].rc = 0) =>
            \/ frame[t].ret = pid_ns_stored(pid_ns_inum)
            \/ frame[t].ret = U32Zero /\ frame[t].reset /\ build = "reload"

====
